---------------------------- MODULE Spec2Model ----------------------------
(***************************************************************************)
(* Jobly data-access layer: helpers/sql.js (sqlForPartialUpdate),          *)
(* models/company.js (Company), models/jobs.js (Job) and the user routes.  *)
(*                                                                         *)
(* JavaScript values are tagged records, SQL text is a sequence of tokens  *)
(* (fixed SQL text, a double-quoted identifier, or a positional parameter  *)
(* $n); Render gives the character string the code builds.  White space    *)
(* inside the fixed statement templates is collapsed to single blanks.     *)
(***************************************************************************)
EXTENDS Integers, Sequences, FiniteSets, TLC

VARIABLES
    companies,      \* rows of table companies
    jobs,           \* rows of table jobs
    users,          \* rows of table users
    applications,   \* rows of table applications
    proc,           \* the calls in flight, one per concurrent caller
    cur             \* report of the call completed last

vars == <<companies, jobs, users, applications, proc, cur>>

(***************************************************************************)
(* Bounds of the model.                                                    *)
(***************************************************************************)
MaxNum == 2         \* numeric inputs range over 0..MaxNum
MaxFields == 2      \* entries of a dataToUpdate object
NProcs == 2         \* concurrent callers

(***************************************************************************)
(* JavaScript values.                                                      *)
(***************************************************************************)
Undefined == [t |-> "undefined", s |-> "", n |-> 0]
Null == [t |-> "null", s |-> "", n |-> 0]
Str(x) == [t |-> "string", s |-> x, n |-> 0]
Num(x) == [t |-> "number", s |-> "", n |-> x]
Bool(b) == [t |-> "boolean", s |-> "", n |-> IF b THEN 1 ELSE 0]

\* ToBoolean: what `if (v)` and `v || w` test.
Truthy(v) ==
    CASE v.t = "string" -> v.s # ""
      [] v.t = "number" -> v.n # 0
      [] v.t = "boolean" -> v.n = 1
      [] OTHER -> FALSE

\* ToString: what `${v}` interpolates.
ToStr(v) ==
    CASE v.t = "string" -> v.s
      [] v.t = "number" -> ToString(v.n)
      [] v.t = "boolean" -> IF v.n = 1 THEN "true" ELSE "false"
      [] v.t = "null" -> "null"
      [] OTHER -> "undefined"

\* a > b on numbers; a comparison with undefined (NaN) is false.
JsGt(a, b) == a.t = "number" /\ b.t = "number" /\ a.n > b.n

(***************************************************************************)
(* SQL text.                                                               *)
(***************************************************************************)
Sql(x) == [k |-> "sql", s |-> x, n |-> 0]
Ident(x) == [k |-> "ident", s |-> x, n |-> 0]
Param(i) == [k |-> "param", s |-> "", n |-> i]

RenderTok(tok) ==
    CASE tok.k = "ident" -> "\"" \o tok.s \o "\""
      [] tok.k = "param" -> "$" \o ToString(tok.n)
      [] OTHER -> tok.s

RECURSIVE Render(_)
Render(text) ==
    IF text = <<>> THEN "" ELSE RenderTok(Head(text)) \o Render(Tail(text))

\* Array.prototype.join on an array of text fragments.
RECURSIVE Join(_, _)
Join(parts, sep) ==
    IF parts = <<>> THEN <<>>
    ELSE IF Len(parts) = 1 THEN parts[1]
    ELSE parts[1] \o <<Sql(sep)>> \o Join(Tail(parts), sep)

\* The numbers of the positional parameters of a text, left to right.
RECURSIVE Placeholders(_)
Placeholders(text) ==
    IF text = <<>> THEN <<>>
    ELSE IF Head(text).k = "param"
         THEN <<Head(text).n>> \o Placeholders(Tail(text))
         ELSE Placeholders(Tail(text))

(***************************************************************************)
(* Errors.                                                                 *)
(***************************************************************************)
NoError == [name |-> "", message |-> ""]
BadRequestError(msg) == [name |-> "BadRequestError", message |-> msg]
NotFoundError(msg) == [name |-> "NotFoundError", message |-> msg]
UnauthorizedError(msg) == [name |-> "UnauthorizedError", message |-> msg]

(***************************************************************************)
(* helpers/sql.js                                                          *)
(***************************************************************************)
\* jsToSql[colName]: a property read; undefined when there is no entry.
Lookup(jsToSql, colName) ==
    IF colName \in DOMAIN jsToSql THEN Str(jsToSql[colName]) ELSE Undefined

\* jsToSql[colName] || colName
ColumnOf(jsToSql, colName) ==
    IF Truthy(Lookup(jsToSql, colName)) THEN Lookup(jsToSql, colName).s
    ELSE colName

\* ColTerm numbering the placeholder idx instead of idx + 1
ColTermZeroBased(jsToSql, colName, idx) ==
    <<Ident(ColumnOf(jsToSql, colName)), Sql("="), Param(idx - 1)>>

\* `"${jsToSql[colName] || colName}"=$${idx + 1}`; idx here is the 1-based
\* position of the key, i.e. the code's idx + 1.
ColTerm(jsToSql, colName, idx) ==
    <<Ident(ColumnOf(jsToSql, colName)), Sql("="), Param(idx)>>

\* sqlForPartialUpdate without the check for empty data
sqlForPartialUpdateNoCheck(dataToUpdate, jsToSql) ==
    [err |-> NoError,
     setCols |-> Join([i \in 1..Len(dataToUpdate) |->
                         ColTerm(jsToSql, dataToUpdate[i].k, i)], ", "),
     values |-> [i \in 1..Len(dataToUpdate) |-> dataToUpdate[i].v]]

\* A dataToUpdate object is the sequence of its entries [k, v] in insertion
\* order, its keys distinct.
sqlForPartialUpdate(dataToUpdate, jsToSql) ==
    LET keys == [i \in 1..Len(dataToUpdate) |-> dataToUpdate[i].k]
        cols == [i \in 1..Len(keys) |-> ColTerm(jsToSql, keys[i], i)]
    IN  IF Len(keys) = 0
        THEN [err |-> BadRequestError("No data"), setCols |-> <<>>,
              values |-> <<>>]
        ELSE [err |-> NoError,
              setCols |-> Join(cols, ", "),
              values |-> [i \in 1..Len(dataToUpdate) |-> dataToUpdate[i].v]]


(***************************************************************************)
(* models/company.js, models/jobs.js: findAll.  <Entity>FindAllQuery is  *)
(* the pair (queryString, queryValues) handed to db.query, or the error    *)
(* thrown before it.                                                       *)
(***************************************************************************)
CompanyBase ==
    <<Sql("SELECT handle, name, description, num_employees AS \"numEmployees\", logo_url AS \"logoUrl\" FROM companies")>>

JobBase ==
    <<Sql("SELECT title, salary, equity, company_handle AS \"companyHandle\" FROM jobs")>>

\* Pattern with the wildcard appended only
PatternSuffixOnly(name) == Str(ToStr(name) \o "%")

\* queryValues.push(`%${name}%`)
Pattern(name) == Str("%" \o ToStr(name) \o "%")

\* Adder writing the value into the text instead of a placeholder
AdderInline(lhs, queryValues) ==
    <<Sql(lhs), Sql("'" \o ToStr(queryValues[Len(queryValues)]) \o "'")>>

\* Adder numbering the placeholder one past the value just pushed
AdderOnePast(lhs, queryValues) == <<Sql(lhs), Param(Len(queryValues) + 1)>>

\* queryAdders.push(`<column> <op> $${queryValues.length}`), after the push
\* onto queryValues.
Adder(lhs, queryValues) == <<Sql(lhs), Param(Len(queryValues))>>

\* Assemble writing WHERE whether or not there is a predicate
AssembleAlwaysWhere(base, queryAdders, orderBy) ==
    base \o <<Sql(" WHERE ")>> \o Join(queryAdders, " AND ") \o <<Sql(orderBy)>>

\* if (queryAdders.length > 0) queryString += ` WHERE ${filterString}`;
\* queryString += ' ORDER BY <key>'
Assemble(base, queryAdders, orderBy) ==
    base
    \o (IF Len(queryAdders) > 0
        THEN <<Sql(" WHERE ")>> \o Join(queryAdders, " AND ")
        ELSE <<>>)
    \o <<Sql(orderBy)>>

\* if (name) { ... }
NamePresent(name) == Truthy(name)

\* BoundPresent testing the bound by truthiness, so that 0 counts as absent
BoundPresentTruthy(bound) == Truthy(bound)

\* if (minEmployees !== undefined) { ... }
BoundPresent(bound) == bound # Undefined

\* BadRange with the comparison turned round
BadRangeSwapped(minEmployees, maxEmployees) == JsGt(maxEmployees, minEmployees)

\* if (minEmployees > maxEmployees) throw ...
BadRange(minEmployees, maxEmployees) == JsGt(minEmployees, maxEmployees)

\* EquityPresent testing the flag by truthiness
EquityPresentTruthy(hasEquity) == Truthy(hasEquity)

\* if (hasEquity === "true") { ... }
EquityPresent(hasEquity) == hasEquity = Str("true")

CompanyFindAllQuery(filter) ==
    LET name == filter.name
        minEmployees == filter.minEmployees
        maxEmployees == filter.maxEmployees
        qv1 == IF NamePresent(name) THEN <<Pattern(name)>> ELSE <<>>
        qa1 == IF NamePresent(name)
               THEN <<Adder("name ILIKE ", qv1)>> ELSE <<>>
        qv2 == IF BoundPresent(minEmployees)
               THEN Append(qv1, minEmployees) ELSE qv1
        qa2 == IF BoundPresent(minEmployees)
               THEN Append(qa1, Adder("num_employees >= ", qv2)) ELSE qa1
        qv3 == IF BoundPresent(maxEmployees)
               THEN Append(qv2, maxEmployees) ELSE qv2
        qa3 == IF BoundPresent(maxEmployees)
               THEN Append(qa2, Adder("num_employees <= ", qv3)) ELSE qa2
    IN  IF BadRange(minEmployees, maxEmployees)
        THEN [err |-> BadRequestError("minimum input can not be higher than maximum input"),
              adders |-> <<>>, text |-> <<>>, values |-> <<>>]
        ELSE [err |-> NoError, adders |-> qa3,
              text |-> Assemble(CompanyBase, qa3, " ORDER BY name"),
              values |-> qv3]

JobFindAllQuery(filter) ==
    LET title == filter.title
        minSalary == filter.minSalary
        hasEquity == filter.hasEquity
        qv1 == IF NamePresent(title) THEN <<Pattern(title)>> ELSE <<>>
        qa1 == IF NamePresent(title)
               THEN <<Adder("title ILIKE ", qv1)>> ELSE <<>>
        qv2 == IF BoundPresent(minSalary)
               THEN Append(qv1, minSalary) ELSE qv1
        qa2 == IF BoundPresent(minSalary)
               THEN Append(qa1, Adder("salary >= ", qv2)) ELSE qa1
        qa3 == IF EquityPresent(hasEquity)
               THEN Append(qa2, <<Sql("equity > 0")>>) ELSE qa2
    IN  [err |-> NoError, adders |-> qa3,
         text |-> Assemble(JobBase, qa3, " ORDER BY title"),
         values |-> qv2]


(***************************************************************************)
(* The store executor db.query(text, values).  A table is a set of rows, a *)
(* row a function from column names to values.  The executor reads the     *)
(* statement it is given: the parameters of the text are bound to values   *)
(* by their numbers.  The rows a findAll SELECT returns and the references *)
(* between tables are not modelled.                                        *)
(***************************************************************************)
\* the columns of a table, each with its position in the INSERT's VALUES list
CompanyColumns ==
    [c \in {"handle", "name", "description", "num_employees", "logo_url"} |->
        CASE c = "handle" -> 1 [] c = "name" -> 2 [] c = "description" -> 3
          [] c = "num_employees" -> 4 [] OTHER -> 5]
JobColumns ==
    [c \in {"id", "title", "salary", "equity", "company_handle"} |->
        CASE c = "id" -> 1 [] c = "title" -> 2 [] c = "salary" -> 3
          [] c = "equity" -> 4 [] OTHER -> 5]

DatabaseError(code) == [name |-> "DatabaseError", message |-> code]

\* rows[0] of a result with at most one row
FirstRow(rows) == IF rows = {} THEN Undefined ELSE CHOOSE r \in rows : TRUE

\* every parameter of the text has a value to bind
Bound(text, values) ==
    \A i \in 1..Len(text) : text[i].k = "param" => text[i].n \in 1..Len(values)

\* SELECT ... WHERE <key> = $1
ExecSelect(table, keyCol, text, values) ==
    IF ~Bound(text, values)
    THEN [err |-> DatabaseError("bind"), rows |-> {}, table |-> table]
    ELSE [err |-> NoError,
          rows |-> {r \in table : r[keyCol] = values[Placeholders(text)[1]]},
          table |-> table]

\* INSERT INTO <table> (<columns>) VALUES ($1, ...) RETURNING ...; the key
\* column is the table's primary key.
ExecInsert(table, keyCol, columns, text, values) ==
    LET ph == Placeholders(text)
        row == [c \in DOMAIN columns |-> values[ph[columns[c]]]]
    IN  IF ~Bound(text, values)
        THEN [err |-> DatabaseError("bind"), rows |-> {}, table |-> table]
        ELSE IF \E r \in table : r[keyCol] = row[keyCol]
        THEN [err |-> DatabaseError("unique_violation"), rows |-> {},
              table |-> table]
        ELSE [err |-> NoError, rows |-> {row}, table |-> table \cup {row}]

\* the assignments "<column>"=$n of an UPDATE's SET list
SetList(text) ==
    {<<text[i].s, text[i + 2].n>> :
        i \in {j \in 1..(Len(text) - 2) :
                  /\ text[j].k = "ident"
                  /\ text[j + 1] = Sql("=")
                  /\ text[j + 2].k = "param"}}

\* the parameter of an UPDATE's WHERE <key> = $n
WhereParam(text, keyCol) ==
    LET i == CHOOSE j \in 2..Len(text) :
                 text[j - 1] = Sql(" WHERE " \o keyCol \o " = ")
    IN  text[i].n

\* UPDATE <table> SET <setCols> WHERE <key> = $n RETURNING ...
ExecUpdate(table, keyCol, columns, text, values) ==
    LET sets == SetList(text)
        key == values[WhereParam(text, keyCol)]
        NewRow(r) == [c \in DOMAIN r |->
                        IF \E a \in sets : a[1] = c
                        THEN values[(CHOOSE a \in sets : a[1] = c)[2]]
                        ELSE r[c]]
        hit == {r \in table : r[keyCol] = key}
    IN  IF ~Bound(text, values)
        THEN [err |-> DatabaseError("bind"), rows |-> {}, table |-> table]
        ELSE IF \E a \in sets : a[1] \notin DOMAIN columns
        THEN [err |-> DatabaseError("undefined_column"), rows |-> {},
              table |-> table]
        ELSE [err |-> NoError,
              rows |-> {NewRow(r) : r \in hit},
              table |-> (table \ hit) \cup {NewRow(r) : r \in hit}]

\* DELETE FROM <table> WHERE <key> = $1 RETURNING <key>
ExecDelete(table, keyCol, text, values) ==
    LET hit == {r \in table : r[keyCol] = values[Placeholders(text)[1]]}
    IN  IF ~Bound(text, values)
        THEN [err |-> DatabaseError("bind"), rows |-> {}, table |-> table]
        ELSE [err |-> NoError, rows |-> hit, table |-> table \ hit]


(***************************************************************************)
(* Reports of calls.  A report names the operation, its arguments, the     *)
(* error thrown (NoError when it returned), the value returned, the        *)
(* queries handed to db.query in order, and the tables as they were when   *)
(* the call started.                                                       *)
(***************************************************************************)
Tables == [companies |-> companies, jobs |-> jobs, users |-> users,
           applications |-> applications]

Report(op, arg, err, ret, queries, pre) ==
    [op |-> op, arg |-> arg, err |-> err, ret |-> ret, queries |-> queries,
     pre |-> pre]

Query(text, values) == [text |-> text, values |-> values]

NoCall == Report("none", Undefined, NoError, Undefined, <<>>, Undefined)

Idle == [op |-> "idle", data |-> Undefined, queries |-> <<>>, pre |-> Undefined]

(***************************************************************************)
(* models/company.js: create, update, remove.                              *)
(***************************************************************************)
CompanySelectSql ==
    <<Sql("SELECT handle FROM companies WHERE handle = "), Param(1)>>

CompanyInsertSql ==
    <<Sql("INSERT INTO companies (handle, name, description, num_employees, logo_url) VALUES ("),
      Param(1), Sql(", "), Param(2), Sql(", "), Param(3), Sql(", "),
      Param(4), Sql(", "), Param(5),
      Sql(") RETURNING handle, name, description, num_employees AS \"numEmployees\", logo_url AS \"logoUrl\"")>>

CompanyDeleteSql ==
    <<Sql("DELETE FROM companies WHERE handle = "), Param(1),
      Sql(" RETURNING handle")>>

CompanyJsToSql ==
    [f \in {"numEmployees", "logoUrl"} |->
        IF f = "numEmployees" THEN "num_employees" ELSE "logo_url"]

\* VarIdx numbering the key's placeholder values.length
VarIdxLast(values) == Len(values)

\* const handleVarIdx = "$" + (values.length + 1)
VarIdx(values) == Len(values) + 1

CompanyUpdateSql(setCols, handleVarIdx) ==
    <<Sql("UPDATE companies SET ")>> \o setCols
    \o <<Sql(" WHERE handle = "), Param(handleVarIdx),
         Sql(" RETURNING handle, name, description, num_employees AS \"numEmployees\", logo_url AS \"logoUrl\"")>>

\* IsDuplicate that never finds a row
IsDuplicateNever(duplicateCheck) == FALSE

\* if (duplicateCheck.rows[0]) throw ...
IsDuplicate(duplicateCheck) == FirstRow(duplicateCheck.rows) # Undefined

\* [handle, name, description, numEmployees, logoUrl]
CompanyInsertValues(data) ==
    <<data.handle, data.name, data.description, data.numEmployees, data.logoUrl>>

\* Company.update(handle, data): the error, the row returned, the queries
\* issued and the table afterwards.
CompanyUpdate(table, handle, data) ==
    LET upd == sqlForPartialUpdate(data, CompanyJsToSql)
        querySql == CompanyUpdateSql(upd.setCols, VarIdx(upd.values))
        args == Append(upd.values, handle)
        result == ExecUpdate(table, "handle", CompanyColumns, querySql, args)
        company == FirstRow(result.rows)
    IN  IF upd.err # NoError
        THEN [err |-> upd.err, ret |-> Undefined, queries |-> <<>>,
              table |-> table]
        ELSE IF result.err # NoError
        THEN [err |-> result.err, ret |-> Undefined,
              queries |-> <<Query(querySql, args)>>, table |-> result.table]
        ELSE IF company = Undefined
        THEN [err |-> NotFoundError("No company: " \o ToStr(handle)),
              ret |-> Undefined, queries |-> <<Query(querySql, args)>>,
              table |-> result.table]
        ELSE [err |-> NoError, ret |-> company,
              queries |-> <<Query(querySql, args)>>, table |-> result.table]

\* Company.remove(handle)
CompanyRemove(table, handle) ==
    LET result == ExecDelete(table, "handle", CompanyDeleteSql, <<handle>>)
        company == FirstRow(result.rows)
    IN  IF result.err # NoError
        THEN [err |-> result.err, ret |-> Undefined,
              queries |-> <<Query(CompanyDeleteSql, <<handle>>)>>,
              table |-> result.table]
        ELSE IF company = Undefined
        THEN [err |-> NotFoundError("No company: " \o ToStr(handle)),
              ret |-> Undefined,
              queries |-> <<Query(CompanyDeleteSql, <<handle>>)>>,
              table |-> result.table]
        ELSE [err |-> NoError, ret |-> Undefined,
              queries |-> <<Query(CompanyDeleteSql, <<handle>>)>>,
              table |-> result.table]

(***************************************************************************)
(* models/jobs.js: create, update, remove.                                 *)
(***************************************************************************)
JobSelectSql == <<Sql("SELECT id FROM jobs WHERE id = "), Param(1)>>

JobInsertSql ==
    <<Sql("INSERT INTO jobs (id, title, salary, equity, company_handle) VALUES ("),
      Param(1), Sql(", "), Param(2), Sql(", "), Param(3), Sql(", "),
      Param(4), Sql(", "), Param(5),
      Sql(") RETURNING id, title, salary, equity, company_handle AS \"companyHandle\"")>>

JobDeleteSql ==
    <<Sql("DELETE FROM jobs WHERE id = "), Param(1), Sql(" RETURNING id")>>

JobJsToSql == [f \in {"title", "salary", "equity"} |-> f]

JobUpdateSql(setCols, idVarIdx) ==
    <<Sql("UPDATE jobs SET ")>> \o setCols
    \o <<Sql(" WHERE id = "), Param(idVarIdx),
         Sql(" RETURNING id, title, salary, equity, company_handle AS \"companyHandle\"")>>

\* [id, title, salary, equity, companyHandle]
JobInsertValues(data) ==
    <<data.id, data.title, data.salary, data.equity, data.companyHandle>>

\* Job.update(id, data)
JobUpdate(table, id, data) ==
    LET upd == sqlForPartialUpdate(data, JobJsToSql)
        querySql == JobUpdateSql(upd.setCols, VarIdx(upd.values))
        args == Append(upd.values, id)
        result == ExecUpdate(table, "id", JobColumns, querySql, args)
        job == FirstRow(result.rows)
    IN  IF upd.err # NoError
        THEN [err |-> upd.err, ret |-> Undefined, queries |-> <<>>,
              table |-> table]
        ELSE IF result.err # NoError
        THEN [err |-> result.err, ret |-> Undefined,
              queries |-> <<Query(querySql, args)>>, table |-> result.table]
        ELSE IF job = Undefined
        THEN [err |-> NotFoundError("No job: " \o ToStr(id)),
              ret |-> Undefined, queries |-> <<Query(querySql, args)>>,
              table |-> result.table]
        ELSE [err |-> NoError, ret |-> job,
              queries |-> <<Query(querySql, args)>>, table |-> result.table]

\* Job.remove(id)
JobRemove(table, id) ==
    LET result == ExecDelete(table, "id", JobDeleteSql, <<id>>)
        job == FirstRow(result.rows)
    IN  IF result.err # NoError
        THEN [err |-> result.err, ret |-> Undefined,
              queries |-> <<Query(JobDeleteSql, <<id>>)>>,
              table |-> result.table]
        ELSE IF job = Undefined
        THEN [err |-> NotFoundError("No job: " \o ToStr(id)),
              ret |-> Undefined,
              queries |-> <<Query(JobDeleteSql, <<id>>)>>,
              table |-> result.table]
        ELSE [err |-> NoError, ret |-> Undefined,
              queries |-> <<Query(JobDeleteSql, <<id>>)>>,
              table |-> result.table]


(***************************************************************************)
(* Initial tables: the rows the model tests start from.                    *)
(***************************************************************************)
CompanyRow(handle, name, description, numEmployees, logoUrl) ==
    [c \in DOMAIN CompanyColumns |->
        CompanyInsertValues([handle |-> handle, name |-> name,
                             description |-> description,
                             numEmployees |-> numEmployees,
                             logoUrl |-> logoUrl])[CompanyColumns[c]]]

JobRow(id, title, salary, equity, companyHandle) ==
    [c \in DOMAIN JobColumns |->
        JobInsertValues([id |-> id, title |-> title, salary |-> salary,
                         equity |-> equity,
                         companyHandle |-> companyHandle])[JobColumns[c]]]

FixtureCompanies ==
    {CompanyRow(Str("c1"), Str("C1"), Str("Desc1"), Num(1), Str("http://c1.img")),
     CompanyRow(Str("c2"), Str("C2"), Str("Desc2"), Num(2), Str("http://c2.img"))}

FixtureJobs ==
    {JobRow(Num(1), Str("J1"), Num(50000), Str("0.5"), Str("c1")),
     JobRow(Num(2), Str("J2"), Num(100000), Str("0"), Str("c2"))}

UserRow(username, firstName, isAdmin) ==
    [c \in {"username", "first_name", "is_admin"} |->
        CASE c = "username" -> username [] c = "first_name" -> firstName
          [] OTHER -> isAdmin]

FixtureUsers ==
    {UserRow(Str("u1"), Str("U1F"), Bool(FALSE)),
     UserRow(Str("u2"), Str("U2F"), Bool(FALSE))}

Procs == 1..NProcs

InitFixture ==
    /\ companies = FixtureCompanies
    /\ jobs = FixtureJobs
    /\ users = FixtureUsers
    /\ applications = {}
    /\ proc = [p \in Procs |-> Idle]
    /\ cur = NoCall

(***************************************************************************)
(* Inputs.                                                                 *)
(***************************************************************************)
\* a name or title criterion: absent, empty, or a string
NameArgs == {Undefined, Str(""), Str("a"), Str("b%")}

\* a numeric criterion: absent or a number
NumArgs == {Undefined} \cup {Num(i) : i \in 0..MaxNum}

\* a hasEquity criterion as it may arrive
EquityArgs == {Undefined, Str("true"), Str("false"), Bool(TRUE), Num(1), Str("yes")}

\* the objects with at most MaxFields of the given entries, keys distinct
DataObjects(entries) ==
    UNION {{d \in [1..n -> entries] :
              \A i, j \in 1..n : i # j => d[i].k # d[j].k} : n \in 0..MaxFields}

\* the mapping of helpers/sql.test.js
TestJsToSql ==
    [f \in {"firstName", "lastName", "isAdmin"} |->
        CASE f = "firstName" -> "first_name" [] f = "lastName" -> "last_name"
          [] OTHER -> "is_admin"]

MappingOf(m) ==
    CASE m = "test" -> TestJsToSql
      [] m = "company" -> CompanyJsToSql
      [] m = "job" -> JobJsToSql
      [] OTHER -> <<>>

DirectEntries ==
    {[k |-> f, v |-> v] : f \in {"firstName", "lastName", "numEmployees"},
                          v \in {Str("user"), Str("test")}}

\* the data and keys of the update calls; "nope" and 758 match no row
CompanyUpdateEntries ==
    {[k |-> "name", v |-> Str("New")], [k |-> "numEmployees", v |-> Num(0)]}

JobUpdateEntries ==
    {[k |-> "title", v |-> Str("J1-new")], [k |-> "salary", v |-> Null]}

CompanyHandles == {Str("c1"), Str("nope")}

JobIds == {Num(1), Num(758)}

(***************************************************************************)
(* Calls of the query builders.                                            *)
(***************************************************************************)
SqlForPartialUpdateCall ==
    \E m \in {"test", "company", "none"}, d \in DataObjects(DirectEntries) :
        LET r == sqlForPartialUpdate(d, MappingOf(m))
        IN  /\ cur' = Report("sqlForPartialUpdate",
                             [dataToUpdate |-> d, jsToSql |-> MappingOf(m)],
                             r.err,
                             [setCols |-> r.setCols, values |-> r.values],
                             <<>>, Tables)
            /\ UNCHANGED <<companies, jobs, users, applications, proc>>

CompanyFindAllCall ==
    \E name \in NameArgs, minEmployees \in NumArgs, maxEmployees \in NumArgs :
        LET filter == [name |-> name, minEmployees |-> minEmployees,
                       maxEmployees |-> maxEmployees]
            q == CompanyFindAllQuery(filter)
        IN  /\ cur' = Report("Company.findAll", filter, q.err, Undefined,
                             IF q.err = NoError
                             THEN <<Query(q.text, q.values)>> ELSE <<>>,
                             Tables)
            /\ UNCHANGED <<companies, jobs, users, applications, proc>>

JobFindAllCall ==
    \E title \in NameArgs, minSalary \in NumArgs, hasEquity \in EquityArgs :
        LET filter == [title |-> title, minSalary |-> minSalary,
                       hasEquity |-> hasEquity]
            q == JobFindAllQuery(filter)
        IN  /\ cur' = Report("Job.findAll", filter, q.err, Undefined,
                             IF q.err = NoError
                             THEN <<Query(q.text, q.values)>> ELSE <<>>,
                             Tables)
            /\ UNCHANGED <<companies, jobs, users, applications, proc>>

CompileNext ==
    \/ SqlForPartialUpdateCall
    \/ CompanyFindAllCall
    \/ JobFindAllCall

SpecCompile == InitFixture /\ [][CompileNext]_vars


(***************************************************************************)
(* Properties of the query builders (SpecCompile).                         *)
(***************************************************************************)
IsFindAll(r) == r.op \in {"Company.findAll", "Job.findAll"}

\* the call handed a query to the executor (findAll) or returned (helper)
Issued(r) == r.op # "none" /\ r.err = NoError

\* the SQL text a call produced
TextOf(r) ==
    IF r.op = "sqlForPartialUpdate" THEN r.ret.setCols ELSE r.queries[1].text

\* the values that go with it
ValuesOf(r) ==
    IF r.op = "sqlForPartialUpdate" THEN r.ret.values ELSE r.queries[1].values

Supplied(v) == v # Undefined

FieldNames(d) == [i \in 1..Len(d) |-> d[i].k]

\* two calls of the same operation that supply the same criteria (the same
\* field names in the same order under the same mapping), whatever the values
SameCriteria(a, b) ==
    /\ a.op = b.op
    /\ CASE a.op = "sqlForPartialUpdate" ->
              /\ FieldNames(a.arg.dataToUpdate) = FieldNames(b.arg.dataToUpdate)
              /\ a.arg.jsToSql = b.arg.jsToSql
         [] a.op = "Company.findAll" ->
              /\ Supplied(a.arg.name) <=> Supplied(b.arg.name)
              /\ Supplied(a.arg.minEmployees) <=> Supplied(b.arg.minEmployees)
              /\ Supplied(a.arg.maxEmployees) <=> Supplied(b.arg.maxEmployees)
         [] a.op = "Job.findAll" ->
              /\ Supplied(a.arg.title) <=> Supplied(b.arg.title)
              /\ Supplied(a.arg.minSalary) <=> Supplied(b.arg.minSalary)
              /\ a.arg.hasEquity = b.arg.hasEquity
         [] OTHER -> FALSE

\* the name or title criterion of a findAll call
NameOf(r) == IF r.op = "Company.findAll" THEN r.arg.name ELSE r.arg.title

\* both calls give a non-empty name (title), or neither does
SameNameEmptiness(a, b) ==
    IsFindAll(a) => ((NameOf(a) \in {Undefined, Str("")})
                       <=> (NameOf(b) \in {Undefined, Str("")}))

\* C1 as stated: any two calls that supply the same criteria (for
\* sqlForPartialUpdate: the same field names in the same order and the same
\* mapping) and differ at most in the values produce the identical SQL text.
C1_AsStated ==
    [][(SameCriteria(cur, cur') /\ Issued(cur) /\ Issued(cur'))
          => TextOf(cur) = TextOf(cur')]_vars

\* C1, amended: any two calls that supply the same criteria, whose name
\* (title) criterion is non-empty in both or in neither, and that both get
\* past the range check produce the identical SQL text; the values are only
\* in the bound value sequence.
C1_ValuesNeverInText ==
    [][(SameCriteria(cur, cur') /\ SameNameEmptiness(cur, cur')
          /\ Issued(cur) /\ Issued(cur'))
          => TextOf(cur) = TextOf(cur')]_vars

\* a findAll with a name holding a wildcard and a lower bound has bound both
C1_Witness ==
    /\ cur.op = "Company.findAll"
    /\ cur.arg.name = Str("b%")
    /\ cur.arg.minEmployees = Num(MaxNum)
    /\ Issued(cur)
    /\ ValuesOf(cur) = <<Str("%b%%"), Num(MaxNum)>>
    /\ Render(TextOf(cur)) =
         "SELECT handle, name, description, num_employees AS \"numEmployees\", logo_url AS \"logoUrl\" FROM companies WHERE name ILIKE $1 AND num_employees >= $2 ORDER BY name"

\* the column the claim names for a field: its entry in the mapping, or the
\* field name when the mapping has none
MappedColumn(jsToSql, field) ==
    IF field \in DOMAIN jsToSql THEN jsToSql[field] ELSE field

\* C2: for non-empty dataToUpdate with N entries sqlForPartialUpdate returns
\* N terms joined by ", " and N values; the i-th term is "<column>"=$i with
\* the mapped column of the i-th field (the field name when unmapped), the
\* i-th value is the i-th entry's value, the placeholders are $1..$N.
C2_SetClause ==
    (cur.op = "sqlForPartialUpdate" /\ Len(cur.arg.dataToUpdate) > 0) =>
        LET d == cur.arg.dataToUpdate
            N == Len(d)
            setCols == cur.ret.setCols
        IN  /\ cur.err = NoError
            /\ Len(setCols) = 4 * N - 1
            /\ \A i \in 1..N :
                  /\ setCols[4 * i - 3] = Ident(MappedColumn(cur.arg.jsToSql, d[i].k))
                  /\ setCols[4 * i - 2] = Sql("=")
                  /\ setCols[4 * i - 1] = Param(i)
                  /\ i < N => setCols[4 * i] = Sql(", ")
            /\ Placeholders(setCols) = [i \in 1..N |-> i]
            /\ Len(cur.ret.values) = N
            /\ \A i \in 1..N : cur.ret.values[i] = d[i].v

\* the call of helpers/sql.test.js
C2_Witness ==
    /\ cur.op = "sqlForPartialUpdate"
    /\ cur.arg.jsToSql = TestJsToSql
    /\ cur.arg.dataToUpdate = <<[k |-> "firstName", v |-> Str("user")],
                                [k |-> "lastName", v |-> Str("test")]>>
    /\ Render(cur.ret.setCols) = "\"first_name\"=$1, \"last_name\"=$2"
    /\ cur.ret.values = <<Str("user"), Str("test")>>

\* the criteria of a filter that bind a value, in the order of the clause,
\* each with the left-hand text of its predicate and the value it binds
Binders(r) ==
    LET all == IF r.op = "Company.findAll"
               THEN <<[on |-> r.arg.name \notin {Undefined, Str("")},
                       lhs |-> "name ILIKE ", v |-> Pattern(r.arg.name)],
                      [on |-> Supplied(r.arg.minEmployees),
                       lhs |-> "num_employees >= ", v |-> r.arg.minEmployees],
                      [on |-> Supplied(r.arg.maxEmployees),
                       lhs |-> "num_employees <= ", v |-> r.arg.maxEmployees]>>
               ELSE <<[on |-> r.arg.title \notin {Undefined, Str("")},
                       lhs |-> "title ILIKE ", v |-> Pattern(r.arg.title)],
                      [on |-> Supplied(r.arg.minSalary),
                       lhs |-> "salary >= ", v |-> r.arg.minSalary]>>
        On(b) == b.on
    IN  SelectSeq(all, On)

\* the positions of the parameters of a text, left to right
RECURSIVE ParamPositions(_, _)
ParamPositions(text, from) ==
    IF from > Len(text) THEN <<>>
    ELSE IF text[from].k = "param"
         THEN <<from>> \o ParamPositions(text, from + 1)
         ELSE ParamPositions(text, from + 1)

\* C3: the placeholders of a findAll query, left to right, are $1..$k with k
\* the number of values handed over, the predicate carrying $i belongs to the
\* criterion that produced the i-th value, and the equity predicate takes no
\* placeholder and adds no value.
C3_PlaceholdersMatchValues ==
    (IsFindAll(cur) /\ Issued(cur)) =>
        LET text == TextOf(cur)
            values == ValuesOf(cur)
            pos == ParamPositions(text, 1)
            b == Binders(cur)
        IN  /\ Placeholders(text) = [i \in 1..Len(values) |-> i]
            /\ Len(values) = Len(b)
            /\ \A i \in 1..Len(values) :
                  /\ text[pos[i] - 1] = Sql(b[i].lhs)
                  /\ values[i] = b[i].v
            /\ \A i \in 1..Len(text) :
                  text[i] = Sql("equity > 0") =>
                      (i = Len(text) \/ text[i + 1].k # "param")

\* a job filter with all three criteria: two values, the equity predicate last
C3_Witness ==
    /\ cur.op = "Job.findAll"
    /\ cur.arg = [title |-> Str("a"), minSalary |-> Num(0), hasEquity |-> Str("true")]
    /\ ValuesOf(cur) = <<Str("%a%"), Num(0)>>
    /\ Render(TextOf(cur)) =
         "SELECT title, salary, equity, company_handle AS \"companyHandle\" FROM jobs WHERE title ILIKE $1 AND salary >= $2 AND equity > 0 ORDER BY title"

\* C4: a company filter with both bounds present and minEmployees >
\* maxEmployees fails with the bad-range error whatever the name is, and no
\* query is handed to the executor.
C4_BadRangeBeforeQuery ==
    (/\ cur.op = "Company.findAll"
     /\ cur.arg.minEmployees.t = "number"
     /\ cur.arg.maxEmployees.t = "number"
     /\ cur.arg.minEmployees.n > cur.arg.maxEmployees.n) =>
        /\ cur.err = BadRequestError("minimum input can not be higher than maximum input")
        /\ cur.queries = <<>>

C4_Witness ==
    /\ cur.op = "Company.findAll"
    /\ cur.arg = [name |-> Str("a"), minEmployees |-> Num(MaxNum),
                  maxEmployees |-> Num(0)]
    /\ cur.err.name = "BadRequestError"
    /\ cur.queries = <<>>

\* the predicates a filter emits, by their left-hand texts, in clause order
Emitted(r) ==
    [i \in 1..Len(Binders(r)) |-> Binders(r)[i].lhs]
    \o (IF r.op = "Job.findAll" /\ r.arg.hasEquity = Str("true")
        THEN <<"equity > 0">> ELSE <<>>)

PredicateHeads ==
    {"name ILIKE ", "num_employees >= ", "num_employees <= ",
     "title ILIKE ", "salary >= ", "equity > 0"}

\* the predicates of a text, by their left-hand texts, left to right
PredicatesIn(text) ==
    LET IsHead(tok) == tok.k = "sql" /\ tok.s \in PredicateHeads
        heads == SelectSeq(text, IsHead)
    IN  [i \in 1..Len(heads) |-> heads[i].s]

Count(text, tok) == Cardinality({i \in 1..Len(text) : text[i] = tok})

\* C6: a findAll query has WHERE iff a predicate is emitted; the clause is
\* the emitted predicates joined by AND in the order substring, lower bound,
\* upper bound (company) or substring, lower bound, equity (job); empty
\* criteria give no WHERE and no values; ORDER BY name (title) always ends it.
C6_WhereClause ==
    (IsFindAll(cur) /\ Issued(cur)) =>
        LET text == TextOf(cur)
            preds == Emitted(cur)
            base == IF cur.op = "Company.findAll" THEN CompanyBase ELSE JobBase
            order == IF cur.op = "Company.findAll"
                     THEN Sql(" ORDER BY name") ELSE Sql(" ORDER BY title")
        IN  /\ Count(text, Sql(" WHERE ")) = (IF Len(preds) > 0 THEN 1 ELSE 0)
            /\ Len(preds) > 0 => text[Len(base) + 1] = Sql(" WHERE ")
            /\ PredicatesIn(text) = preds
            /\ Count(text, Sql(" AND ")) = (IF Len(preds) > 0 THEN Len(preds) - 1 ELSE 0)
            /\ Len(text) = Len(base) + (IF Len(preds) > 0 THEN 1 ELSE 0)
                           + Len(preds) + Len(ValuesOf(cur))
                           + (IF Len(preds) > 0 THEN Len(preds) - 1 ELSE 0) + 1
            /\ SubSeq(text, 1, Len(base)) = base
            /\ text[Len(text)] = order
            /\ (Len(preds) = 0) => (text = base \o <<order>> /\ ValuesOf(cur) = <<>>)

\* findAll() without criteria, as in "works: no filter"
C6_Witness ==
    /\ cur.op = "Job.findAll"
    /\ cur.arg = [title |-> Undefined, minSalary |-> Undefined, hasEquity |-> Undefined]
    /\ ValuesOf(cur) = <<>>
    /\ Render(TextOf(cur)) =
         "SELECT title, salary, equity, company_handle AS \"companyHandle\" FROM jobs ORDER BY title"

\* the left-hand text of the substring predicate of a findAll call
NameLhs(r) == IF r.op = "Company.findAll" THEN "name ILIKE " ELSE "title ILIKE "

BaseOf(r) == IF r.op = "Company.findAll" THEN CompanyBase ELSE JobBase

\* the query has exactly one ILIKE predicate on the name (title) column, it
\* comes first after WHERE with placeholder $1, and the first value is the
\* criterion's string between two %
SubstringFilter(r) ==
    LET text == TextOf(r)
        values == ValuesOf(r)
        n == Len(BaseOf(r))
    IN  /\ Count(text, Sql(NameLhs(r))) = 1
        /\ Len(text) >= n + 3
        /\ text[n + 1] = Sql(" WHERE ")
        /\ text[n + 2] = Sql(NameLhs(r))
        /\ text[n + 3] = Param(1)
        /\ Len(values) >= 1
        /\ values[1] = Str("%" \o NameOf(r).s \o "%")

\* C11 as stated: a findAll query whose criteria hold a name (title) that is
\* a string, whatever the string, has exactly one ILIKE predicate on that
\* column, first and with $1, and %string% as its first value.
C11_AsStated ==
    (IsFindAll(cur) /\ Issued(cur) /\ NameOf(cur).t = "string")
        => SubstringFilter(cur)

\* C11, amended: a findAll query whose criteria hold a name (title) that is
\* a non-empty string has exactly one ILIKE predicate on that column, it is
\* the first predicate and carries $1, and the first value is the string
\* with % before and after and no other change (a % inside is kept as it
\* is); with the empty string there is no ILIKE predicate and no pattern
\* value.
C11_SubstringFilter ==
    (IsFindAll(cur) /\ Issued(cur) /\ NameOf(cur).t = "string") =>
        IF NameOf(cur).s # ""
        THEN SubstringFilter(cur)
        ELSE /\ Count(TextOf(cur), Sql(NameLhs(cur))) = 0
             /\ \A i \in 1..Len(ValuesOf(cur)) : ValuesOf(cur)[i].t # "string"

\* a title holding a wildcard, with the two other criteria
C11_Witness ==
    /\ cur.op = "Job.findAll"
    /\ cur.arg = [title |-> Str("b%"), minSalary |-> Num(1), hasEquity |-> Str("true")]
    /\ ValuesOf(cur) = <<Str("%b%%"), Num(1)>>
    /\ Render(TextOf(cur)) =
         "SELECT title, salary, equity, company_handle AS \"companyHandle\" FROM jobs WHERE title ILIKE $1 AND salary >= $2 AND equity > 0 ORDER BY title"


\* two Job.findAll calls with the same title and minSalary, the first with a
\* hasEquity other than "true", the second without hasEquity
EquityIgnoredPair(a, b) ==
    /\ a.op = "Job.findAll"
    /\ b.op = "Job.findAll"
    /\ a.arg.title = b.arg.title
    /\ a.arg.minSalary = b.arg.minSalary
    /\ a.arg.hasEquity # Str("true")
    /\ b.arg.hasEquity = Undefined

\* C12: Job.findAll never fails on hasEquity; its query holds the predicate
\* equity > 0 (once) iff hasEquity is the string "true"; with any other
\* hasEquity (absent, "false", boolean true, 1, "yes") the query text and
\* the value sequence are those of the call without hasEquity.
C12_EquityFlag ==
    /\ [](cur.op = "Job.findAll" =>
            /\ cur.err = NoError
            /\ Len(cur.queries) = 1
            /\ Count(TextOf(cur), Sql("equity > 0"))
                 = (IF cur.arg.hasEquity = Str("true") THEN 1 ELSE 0))
    /\ [][EquityIgnoredPair(cur, cur') =>
            /\ TextOf(cur) = TextOf(cur')
            /\ ValuesOf(cur) = ValuesOf(cur')]_vars

\* a job filter with hasEquity "yes": the lower bound only
C12_Witness ==
    /\ cur.op = "Job.findAll"
    /\ cur.arg = [title |-> Undefined, minSalary |-> Num(1), hasEquity |-> Str("yes")]
    /\ cur.err = NoError
    /\ ValuesOf(cur) = <<Num(1)>>
    /\ Render(TextOf(cur)) =
         "SELECT title, salary, equity, company_handle AS \"companyHandle\" FROM jobs WHERE salary >= $1 ORDER BY title"

\* the numeric bound criteria of a findAll call, each with the left-hand
\* text of its comparison
BoundsOf(r) ==
    IF r.op = "Company.findAll"
    THEN {[lhs |-> "num_employees >= ", v |-> r.arg.minEmployees],
          [lhs |-> "num_employees <= ", v |-> r.arg.maxEmployees]}
    ELSE {[lhs |-> "salary >= ", v |-> r.arg.minSalary]}

\* a supplied bound has its comparison once in the text, followed by a
\* placeholder whose value is the bound; a bound not supplied has none
BoundContribution(r, b) ==
    LET text == TextOf(r)
        values == ValuesOf(r)
        at == {i \in 1..Len(text) : text[i] = Sql(b.lhs)}
    IN  IF Supplied(b.v)
        THEN /\ Cardinality(at) = 1
             /\ \A i \in at :
                   /\ i < Len(text)
                   /\ text[i + 1].k = "param"
                   /\ text[i + 1].n \in 1..Len(values)
                   /\ values[text[i + 1].n] = b.v
        ELSE at = {}

\* C13: in a findAll query a numeric bound (minEmployees, maxEmployees,
\* minSalary) that is supplied, 0 included, has its comparison (>= for a
\* lower, <= for an upper bound) and its value bound to the comparison's
\* placeholder; a bound that is not supplied has no comparison and no value:
\* the values are the substring pattern, if any, and the supplied bounds.
C13_NumericBounds ==
    (IsFindAll(cur) /\ Issued(cur)) =>
        /\ \A b \in BoundsOf(cur) : BoundContribution(cur, b)
        /\ Len(ValuesOf(cur)) =
              Count(TextOf(cur), Sql(NameLhs(cur)))
              + Cardinality({b \in BoundsOf(cur) : Supplied(b.v)})

\* a company filter whose only criterion is the lower bound 0
C13_Witness ==
    /\ cur.op = "Company.findAll"
    /\ cur.arg = [name |-> Undefined, minEmployees |-> Num(0),
                  maxEmployees |-> Undefined]
    /\ ValuesOf(cur) = <<Num(0)>>
    /\ Render(TextOf(cur)) =
         "SELECT handle, name, description, num_employees AS \"numEmployees\", logo_url AS \"logoUrl\" FROM companies WHERE num_employees >= $1 ORDER BY name"




(***************************************************************************)
(* Calls of update (SpecUpdate).                                           *)
(***************************************************************************)
CompanyUpdateCall ==
    \E handle \in CompanyHandles, data \in DataObjects(CompanyUpdateEntries) :
        LET r == CompanyUpdate(companies, handle, data)
        IN  /\ companies' = r.table
            /\ cur' = Report("Company.update", [id |-> handle, data |-> data],
                             r.err, r.ret, r.queries, Tables)
            /\ UNCHANGED <<jobs, users, applications, proc>>

JobUpdateCall ==
    \E id \in JobIds, data \in DataObjects(JobUpdateEntries) :
        LET r == JobUpdate(jobs, id, data)
        IN  /\ jobs' = r.table
            /\ cur' = Report("Job.update", [id |-> id, data |-> data],
                             r.err, r.ret, r.queries, Tables)
            /\ UNCHANGED <<companies, users, applications, proc>>

UpdateNext ==
    \/ SqlForPartialUpdateCall
    \/ CompanyUpdateCall
    \/ JobUpdateCall

SpecUpdate == InitFixture /\ [][UpdateNext]_vars

IsUpdate(r) == r.op \in {"Company.update", "Job.update"}

OnCompanies(r) == r.op \in {"Company.create", "Company.update", "Company.remove"}

\* the table a call works on, as it was when the call started
TableBefore(r) == IF OnCompanies(r) THEN r.pre.companies ELSE r.pre.jobs

KeyColOf(r) == IF OnCompanies(r) THEN "handle" ELSE "id"

\* C5: sqlForPartialUpdate fails with the no-data error for empty data under
\* every mapping; Company.update and Job.update with empty data fail with it,
\* hand no query to the executor and leave the tables as they were.
C5_NoData ==
    /\ (cur.op = "sqlForPartialUpdate" /\ cur.arg.dataToUpdate = <<>>) =>
          cur.err = BadRequestError("No data")
    /\ (IsUpdate(cur) /\ cur.arg.data = <<>>) =>
          /\ cur.err = BadRequestError("No data")
          /\ cur.queries = <<>>
          /\ Tables = cur.pre

\* Job.update("1", {}) on a table that holds job 1
C5_Witness ==
    /\ cur.op = "Job.update"
    /\ cur.arg = [id |-> Num(1), data |-> <<>>]
    /\ cur.err = BadRequestError("No data")
    /\ \E r \in jobs : r["id"] = Num(1)

\* C9: update(id, data) with non-empty data and an id that matches no row
\* fails with the not-found error and changes no row; the one UPDATE binds
\* id to the placeholder numbered values.length + 1.
C9_UpdateNotFound ==
    (/\ IsUpdate(cur)
     /\ Len(cur.arg.data) > 0
     /\ \A r \in TableBefore(cur) : r[KeyColOf(cur)] # cur.arg.id) =>
        LET N == Len(cur.arg.data)
            q == cur.queries[1]
            ph == Placeholders(q.text)
        IN  /\ cur.err.name = "NotFoundError"
            /\ Tables = cur.pre
            /\ Len(cur.queries) = 1
            /\ Len(q.values) = N + 1
            /\ q.values[N + 1] = cur.arg.id
            /\ ph = [i \in 1..(N + 1) |-> i]
            /\ q.text[Len(q.text) - 2] = Sql(" WHERE " \o KeyColOf(cur) \o " = ")
            /\ q.text[Len(q.text) - 1] = Param(N + 1)

\* Job.update(758, {title, salary}) as in "not found if no such Job"
C9_Witness ==
    /\ cur.op = "Job.update"
    /\ cur.arg.id = Num(758)
    /\ Len(cur.arg.data) = 2
    /\ cur.err = NotFoundError("No job: 758")
    /\ jobs = FixtureJobs
    /\ Render(cur.queries[1].text) =
         "UPDATE jobs SET \"title\"=$1, \"salary\"=$2 WHERE id = $3 RETURNING id, title, salary, equity, company_handle AS \"companyHandle\""


(***************************************************************************)
(* Calls of create and remove.  A create is two round trips to the store,  *)
(* the existence check and the insert, and other callers' round trips may  *)
(* come between them (SpecCreate); SpecSeq has one caller, who awaits each *)
(* call before the next.                                                   *)
(***************************************************************************)
NewCompany(handle) ==
    [handle |-> Str(handle), name |-> Str("New"),
     description |-> Str("New Description"), numEmployees |-> Num(1),
     logoUrl |-> Str("http://new.img")]

\* newJob of models/jobs.test.js, with the given id
NewJob(id) ==
    [id |-> Num(id), title |-> Str("New"), salary |-> Num(100000),
     equity |-> Num(0), companyHandle |-> Str("c1")]

CompanyCreateCheck(p, data) ==
    /\ proc[p].op = "idle"
    /\ LET duplicateCheck == ExecSelect(companies, "handle", CompanySelectSql,
                                        <<data.handle>>)
           asked == <<Query(CompanySelectSql, <<data.handle>>)>>
       IN  IF IsDuplicate(duplicateCheck)
           THEN /\ cur' = Report("Company.create", data,
                                 BadRequestError("Duplicate company: " \o ToStr(data.handle)),
                                 Undefined, asked, Tables)
                /\ UNCHANGED proc
           ELSE /\ proc' = [proc EXCEPT ![p] =
                              [op |-> "Company.create", data |-> data,
                               queries |-> asked, pre |-> Tables]]
                /\ UNCHANGED cur
    /\ UNCHANGED <<companies, jobs, users, applications>>

CompanyCreateInsert(p) ==
    /\ proc[p].op = "Company.create"
    /\ LET args == CompanyInsertValues(proc[p].data)
           result == ExecInsert(companies, "handle", CompanyColumns,
                                CompanyInsertSql, args)
       IN  /\ companies' = result.table
           /\ cur' = Report("Company.create", proc[p].data, result.err,
                            FirstRow(result.rows),
                            Append(proc[p].queries, Query(CompanyInsertSql, args)),
                            proc[p].pre)
    /\ proc' = [proc EXCEPT ![p] = Idle]
    /\ UNCHANGED <<jobs, users, applications>>

JobCreateCheck(p, data) ==
    /\ proc[p].op = "idle"
    /\ LET duplicateCheck == ExecSelect(jobs, "id", JobSelectSql, <<data.id>>)
           asked == <<Query(JobSelectSql, <<data.id>>)>>
       IN  IF IsDuplicate(duplicateCheck)
           THEN /\ cur' = Report("Job.create", data,
                                 BadRequestError("Duplicate job: " \o ToStr(data.title)),
                                 Undefined, asked, Tables)
                /\ UNCHANGED proc
           ELSE /\ proc' = [proc EXCEPT ![p] =
                              [op |-> "Job.create", data |-> data,
                               queries |-> asked, pre |-> Tables]]
                /\ UNCHANGED cur
    /\ UNCHANGED <<companies, jobs, users, applications>>

JobCreateInsert(p) ==
    /\ proc[p].op = "Job.create"
    /\ LET args == JobInsertValues(proc[p].data)
           result == ExecInsert(jobs, "id", JobColumns, JobInsertSql, args)
       IN  /\ jobs' = result.table
           /\ cur' = Report("Job.create", proc[p].data, result.err,
                            FirstRow(result.rows),
                            Append(proc[p].queries, Query(JobInsertSql, args)),
                            proc[p].pre)
    /\ proc' = [proc EXCEPT ![p] = Idle]
    /\ UNCHANGED <<companies, users, applications>>

CompanyRemoveCall(handle) ==
    LET r == CompanyRemove(companies, handle)
    IN  /\ companies' = r.table
        /\ cur' = Report("Company.remove", [id |-> handle], r.err, r.ret,
                         r.queries, Tables)
        /\ UNCHANGED <<jobs, users, applications, proc>>

JobRemoveCall(id) ==
    LET r == JobRemove(jobs, id)
    IN  /\ jobs' = r.table
        /\ cur' = Report("Job.remove", [id |-> id], r.err, r.ret, r.queries,
                         Tables)
        /\ UNCHANGED <<companies, users, applications, proc>>

\* concurrent callers creating (and removing) company "new" and job 4
CreateNext ==
    \E p \in Procs :
        \/ CompanyCreateCheck(p, NewCompany("new"))
        \/ CompanyCreateInsert(p)
        \/ JobCreateCheck(p, NewJob(4))
        \/ JobCreateInsert(p)
        \/ CompanyRemoveCall(Str("new"))
        \/ JobRemoveCall(Num(4))

SpecCreate == InitFixture /\ [][CreateNext]_vars

\* one caller, one call at a time
SeqNext ==
    \/ \E handle \in {"c1", "new"} : CompanyCreateCheck(1, NewCompany(handle))
    \/ CompanyCreateInsert(1)
    \/ \E id \in {1, 4} : JobCreateCheck(1, NewJob(id))
    \/ JobCreateInsert(1)
    \/ /\ proc[1].op = "idle"
       /\ \E handle \in {"c1", "c2", "new"} : CompanyRemoveCall(Str(handle))
    \/ /\ proc[1].op = "idle"
       /\ \E id \in {1, 2, 4} : JobRemoveCall(Num(id))

SpecSeq == InitFixture /\ [][SeqNext]_vars

IsCreate(r) == r.op \in {"Company.create", "Job.create"}

\* the key of the data of a create call
KeyOf(r) == IF r.op = "Company.create" THEN r.arg.handle ELSE r.arg.id

TableNow(r) == IF OnCompanies(r) THEN companies ELSE jobs

DuplicateErrorOf(r) ==
    IF r.op = "Company.create"
    THEN BadRequestError("Duplicate company: " \o ToStr(r.arg.handle))
    ELSE BadRequestError("Duplicate job: " \o ToStr(r.arg.title))

\* C7: of concurrent create calls for one key, whatever the interleaving of
\* their checks and inserts, one returns the new row and every other fails
\* with the duplicate error, and the table holds one row with that key.
C7_ConcurrentCreate ==
    /\ IsCreate(cur) =>
          \/ cur.err = NoError /\ cur.ret \in TableNow(cur)
          \/ cur.err = DuplicateErrorOf(cur)
    /\ \A r1, r2 \in companies : r1["handle"] = r2["handle"] => r1 = r2
    /\ \A r1, r2 \in jobs : r1["id"] = r2["id"] => r1 = r2

\* C8: in a sequential history create(data) fails with the duplicate error
\* exactly when a row with data's key is in the table at the call; the
\* failing call issues no insert and changes nothing; a create that does not
\* fail adds exactly one row, with that key.
C8_SequentialCreate ==
    IsCreate(cur) =>
        LET before == TableBefore(cur)
            existed == \E r \in before : r[KeyColOf(cur)] = KeyOf(cur)
        IN  /\ (cur.err = DuplicateErrorOf(cur)) <=> existed
            /\ existed =>
                  /\ Len(cur.queries) = 1
                  /\ Head(cur.queries[1].text).s \notin
                        {Head(CompanyInsertSql).s, Head(JobInsertSql).s}
                  /\ Tables = cur.pre
            /\ cur.err = NoError =>
                  /\ cur.ret \notin before
                  /\ TableNow(cur) = before \cup {cur.ret}
                  /\ cur.ret[KeyColOf(cur)] = KeyOf(cur)
                  /\ Len(cur.queries) = 2

\* the second Job.create(newJob) of "bad request with duplicate"
C8_Witness ==
    /\ cur.op = "Job.create"
    /\ cur.arg = NewJob(4)
    /\ cur.err = BadRequestError("Duplicate job: New")
    /\ JobRow(Num(4), Str("New"), Num(100000), Num(0), Str("c1")) \in jobs


(***************************************************************************)
(* The user routes.  models/user.js, middleware/auth.js and the JSON       *)
(* schemas are modelled by their interface: User.update, User.remove and   *)
(* User.applied do what their names and the routes' comments say,          *)
(* ensureLoggedIn refuses a request without a user.                        *)
(***************************************************************************)
UserColumns == {"username", "first_name", "is_admin"}

UserUpdateSql(setCols, usernameVarIdx) ==
    <<Sql("UPDATE users SET ")>> \o setCols
    \o <<Sql(" WHERE username = "), Param(usernameVarIdx),
         Sql(" RETURNING username")>>

\* User.update(username, data)
UserUpdate(table, username, data) ==
    LET upd == sqlForPartialUpdate(data, TestJsToSql)
        result == ExecUpdate(table, "username",
                             [c \in UserColumns |-> 0],
                             UserUpdateSql(upd.setCols, VarIdx(upd.values)),
                             Append(upd.values, username))
    IN  IF upd.err # NoError THEN [err |-> upd.err, table |-> table]
        ELSE IF result.err # NoError
        THEN [err |-> result.err, table |-> result.table]
        ELSE IF FirstRow(result.rows) = Undefined
        THEN [err |-> NotFoundError("No user: " \o ToStr(username)),
              table |-> result.table]
        ELSE [err |-> NoError, table |-> result.table]

\* User.remove(username)
UserRemove(table, username) ==
    LET hit == {u \in table : u["username"] = username}
    IN  IF hit = {}
        THEN [err |-> NotFoundError("No user: " \o ToStr(username)),
              table |-> table]
        ELSE [err |-> NoError, table |-> table \ hit]

\* User.applied(username, jobId): a row of applications, which refers to a
\* user and a job
UserApplied(table, username, jobId) ==
    IF \/ \A u \in users : u["username"] # username
       \/ \A j \in jobs : j["id"] # jobId
    THEN [err |-> DatabaseError("foreign_key_violation"), table |-> table]
    ELSE IF <<username, jobId>> \in table
    THEN [err |-> DatabaseError("unique_violation"), table |-> table]
    ELSE [err |-> NoError, table |-> table \cup {<<username, jobId>>}]

\* ensureLoggedIn: res.locals.user must be there
LoggedIn(user) == user # Undefined

\* jsonschema.validate(req.body, userUpdateSchema): data can include
\* firstName, lastName, password, email
ValidUserUpdate(body) ==
    \A i \in 1..Len(body) :
        body[i].k \in {"firstName", "lastName", "password", "email"}

\* res.locals.user.isAdmin === false &&
\* res.locals.user.username !== req.params.username
NotAdminNorSelf(user, username) ==
    user.isAdmin = Bool(FALSE) /\ user.username # username

TypeError(msg) == [name |-> "TypeError", message |-> msg]

OnlyAdminOrUser ==
    UnauthorizedError("Only admin or this user can reach this route")

\* res.locals.user: nobody, the users u1 and u2, an admin
Requesters ==
    {Undefined,
     [username |-> Str("u1"), isAdmin |-> Bool(FALSE)],
     [username |-> Str("u2"), isAdmin |-> Bool(FALSE)],
     [username |-> Str("admin"), isAdmin |-> Bool(TRUE)]}

Usernames == {Str("u1"), Str("u2")}

UserBodies ==
    {<<[k |-> "firstName", v |-> Str("Changed")]>>,
     <<[k |-> "isAdmin", v |-> Bool(TRUE)]>>,
     <<>>}

\* router.patch("/:username", ensureLoggedIn, ...)
PatchUser ==
    \E user \in Requesters, username \in Usernames, body \in UserBodies :
        LET arg == [user |-> user, username |-> username, body |-> body]
            r == UserUpdate(users, username, body)
        IN  /\ IF ~LoggedIn(user)
               THEN /\ cur' = Report("PATCH /users/:username", arg,
                                     UnauthorizedError(""), Undefined, <<>>, Tables)
                    /\ UNCHANGED users
               ELSE IF ~ValidUserUpdate(body)
               THEN /\ cur' = Report("PATCH /users/:username", arg,
                                     BadRequestError("instance is not valid"),
                                     Undefined, <<>>, Tables)
                    /\ UNCHANGED users
               ELSE /\ users' = r.table
                    /\ cur' = Report("PATCH /users/:username", arg,
                                     IF r.err # NoError THEN r.err
                                     ELSE IF NotAdminNorSelf(user, username)
                                     THEN OnlyAdminOrUser ELSE NoError,
                                     Undefined, <<>>, Tables)
            /\ UNCHANGED <<companies, jobs, applications, proc>>

\* router.delete("/:username", ensureLoggedIn, ...)
DeleteUser ==
    \E user \in Requesters, username \in Usernames :
        LET arg == [user |-> user, username |-> username, body |-> <<>>]
            r == UserRemove(users, username)
        IN  /\ IF ~LoggedIn(user)
               THEN /\ cur' = Report("DELETE /users/:username", arg,
                                     UnauthorizedError(""), Undefined, <<>>, Tables)
                    /\ UNCHANGED users
               ELSE /\ users' = r.table
                    /\ cur' = Report("DELETE /users/:username", arg,
                                     IF r.err # NoError THEN r.err
                                     ELSE IF NotAdminNorSelf(user, username)
                                     THEN OnlyAdminOrUser ELSE NoError,
                                     Undefined, <<>>, Tables)
            /\ UNCHANGED <<companies, jobs, applications, proc>>

\* router.post('/:username/jobs/:id', ...): no ensureLoggedIn; without a
\* user the read of res.locals.user.isAdmin throws
ApplyToJob ==
    \E user \in Requesters, username \in Usernames, id \in {Num(1), Num(2)} :
        LET arg == [user |-> user, username |-> username, body |-> <<>>, id |-> id]
            r == UserApplied(applications, username, id)
        IN  /\ applications' = r.table
            /\ cur' = Report("POST /users/:username/jobs/:id", arg,
                             IF r.err # NoError THEN r.err
                             ELSE IF user = Undefined
                             THEN TypeError("Cannot read properties of undefined (reading 'isAdmin')")
                             ELSE IF NotAdminNorSelf(user, username)
                             THEN OnlyAdminOrUser ELSE NoError,
                             Undefined, <<>>, Tables)
            /\ UNCHANGED <<companies, jobs, users, proc>>

RoutesNext ==
    \/ PatchUser
    \/ DeleteUser
    \/ ApplyToJob

SpecRoutes == InitFixture /\ [][RoutesNext]_vars

IsUserRoute(r) ==
    r.op \in {"PATCH /users/:username", "DELETE /users/:username",
              "POST /users/:username/jobs/:id"}

\* the requester is an admin or the user named in the path
AdminOrSelf(user, username) ==
    /\ user # Undefined
    /\ (user.isAdmin = Bool(TRUE) \/ user.username = username)

\* C10: after a request to PATCH /:username, DELETE /:username or
\* POST /:username/jobs/:id whose requester is neither an admin nor the user
\* named in the path (or is nobody), the user tables are as they were.
C10_UnauthorizedNoEffect ==
    (IsUserRoute(cur) /\ ~AdminOrSelf(cur.arg.user, cur.arg.username)) =>
        /\ users = cur.pre.users
        /\ applications = cur.pre.applications

=============================================================================
